---- MODULE Spec2Model ----
(***************************************************************************)
(* A model of the wordle crate: the feedback function                      *)
(* Correctness::compute (src/lib.rs:46-79) and the game loop Wordle::play  *)
(* (src/lib.rs:20-35) driving a Guesser (src/lib.rs:87-89).                *)
(*                                                                         *)
(* Words are sequences of one-byte letters, as in dictionary.txt, so that  *)
(* str::len (a byte count) is the number of letters of the word.           *)
(* Positions are 1-based here and 0-based in the source.                   *)
(***************************************************************************)
EXTENDS Integers, Sequences, FiniteSets

VARIABLES
    answer,      \* play/compute argument `answer`
    guess,       \* the local `guess` of play, the argument `guess` of compute
    history,     \* the local `history` of play: a sequence of Guess {word, mask}
    i,           \* the loop variable of `for i in 0..6`
    pc,          \* position of the control flow
    result,      \* what play returned: Pending, Some(n) or None
    candidates,  \* the words guesser.guess has returned in this game, in order
    games,       \* number of play calls started on this Wordle instance
    computed,    \* number of Correctness::compute calls play made in this game
    mask         \* what compute returned to a direct caller

vars == <<answer, guess, history, i, pc, result, candidates, games,
          computed, mask>>

----------------------------------------------------------------------------
(* Bounds of the model *)

NumLetters == 3       \* letters of the words handed to compute directly
NumPermLetters == 5   \* letters of the words without repeated letters
MaxGames == 2         \* games played on one Wordle instance

(* Program constants *)

WordLen == 5          \* assert_eq!(answer.len(), 5)
MaxRounds == 6        \* for i in 0..6

Alphabet == <<"a", "b", "c", "d", "e", "f", "g">>

Letters == {Alphabet[k] : k \in 1..NumLetters}

PermLetters == {Alphabet[k] : k \in 1..NumPermLetters}

Pos == 1..WordLen

Words == [Pos -> Letters]

----------------------------------------------------------------------------
(* enum Correctness *)

Correct == "C"
Misplaced == "M"
Wrong == "W"

(* A failed assertion unwinds out of compute: no mask is returned. *)
Panicked == <<>>

(* A variant whose loop over the positions stops one short. *)
MarkGreenSkipLast(a, g) ==
    [p \in Pos |-> IF p < WordLen /\ a[p] = g[p] THEN Correct ELSE Wrong]

(* `mark things green`: c starts all Wrong, position i becomes Correct where
   the letters are equal. *)
MarkGreen(a, g) ==
    [p \in Pos |-> IF a[p] = g[p] THEN Correct ELSE Wrong]

(* A variant that starts with every position consumed. *)
UsedFromMaskAll(c) ==
    [p \in Pos |-> TRUE]

(* A variant that leaves every position unconsumed. *)
UsedFromMaskNone(c) ==
    [p \in Pos |-> FALSE]

(* `used`: starts all false, set where c is Correct. *)
UsedFromMask(c) ==
    [p \in Pos |-> c[p] = Correct]

(* A variant of the closure that does not test `used`. *)
FirstUnusedAny(a, ch, used) ==
    LET hits == {p \in Pos : a[p] = ch}
    IN  IF hits = {} THEN 0
        ELSE CHOOSE p \in hits : \A q \in hits : p <= q

(* The closure handed to `any`: the first answer position that holds letter
   ch and is not yet used, 0 when there is none (any returns false). *)
FirstUnused(a, ch, used) ==
    LET hits == {p \in Pos : a[p] = ch /\ ~used[p]}
    IN  IF hits = {} THEN 0
        ELSE CHOOSE p \in hits : \A q \in hits : p <= q

(* A variant of the loop that never visits the last guess position. *)
RECURSIVE MarkYellowSkipLast(_, _, _, _, _)
MarkYellowSkipLast(a, g, c, used, p) ==
    IF p >= WordLen THEN c
    ELSE IF c[p] = Correct THEN MarkYellowSkipLast(a, g, c, used, p + 1)
    ELSE LET j == FirstUnused(a, g[p], used)
         IN  IF j # 0
             THEN MarkYellowSkipLast(a, g, [c EXCEPT ![p] = Misplaced],
                                     [used EXCEPT ![j] = TRUE], p + 1)
             ELSE MarkYellowSkipLast(a, g, c, used, p + 1)

(* `mark things as yellow`: the loop over the guess positions, from p on. *)
RECURSIVE MarkYellow(_, _, _, _, _)
MarkYellow(a, g, c, used, p) ==
    IF p > WordLen THEN c
    ELSE IF c[p] = Correct THEN MarkYellow(a, g, c, used, p + 1)
    ELSE LET j == FirstUnused(a, g[p], used)
         IN  IF j # 0
             THEN MarkYellow(a, g, [c EXCEPT ![p] = Misplaced],
                             [used EXCEPT ![j] = TRUE], p + 1)
             ELSE MarkYellow(a, g, c, used, p + 1)

(* Correctness::compute *)
compute(a, g) ==
    IF Len(a) # WordLen \/ Len(g) # WordLen THEN Panicked
    ELSE LET c == MarkGreen(a, g)
         IN  MarkYellow(a, g, c, UsedFromMask(c), 1)

----------------------------------------------------------------------------
(* Wordle::play *)

Pending == [ret |-> "Pending", n |-> 0]
None == [ret |-> "None", n |-> 0]
Some(n) == [ret |-> "Some", n |-> n]

NoWord == <<>>

(* Wordle.dictionary: the words of dictionary.txt, all of five letters. *)
Dictionary ==
    { <<"a", "b", "a", "c", "a">>,
      <<"b", "a", "a", "c", "c">>,
      <<"c", "c", "b", "a", "b">> }

(* A five-letter word that is not in the dictionary, and words that are not
   of five letters. *)
Unlisted == <<"a", "a", "b", "b", "b">>
Short == <<"a", "b", "c">>
Long == <<"a", "b", "c", "a", "b", "c">>

(* What a caller may pass as the answer, what a Guesser may return. *)
Answers == Dictionary \cup {Unlisted, Short, Long}
Guessable == Dictionary \cup {Unlisted, Short, Long}

(* A variant that keeps the history and the loop variable of the last game. *)
StartGameKeepsHistory(a) ==
    /\ answer' = a
    /\ history' = history
    /\ i' = i
    /\ pc' = "loop"
    /\ guess' = NoWord
    /\ result' = Pending
    /\ candidates' = <<>>
    /\ computed' = 0

StartGame(a) ==
    /\ answer' = a
    /\ history' = <<>>
    /\ i' = 0
    /\ pc' = "loop"
    /\ guess' = NoWord
    /\ result' = Pending
    /\ candidates' = <<>>
    /\ computed' = 0

Init ==
    /\ answer \in Answers
    /\ history = <<>>
    /\ i = 0
    /\ pc = "loop"
    /\ guess = NoWord
    /\ result = Pending
    /\ candidates = <<>>
    /\ games = 1
    /\ computed = 0
    /\ mask = Panicked

(* A variant whose loop runs over 0..=6. *)
GuessInclusive(w) ==
    /\ pc = "loop"
    /\ i <= MaxRounds
    /\ guess' = w
    /\ candidates' = Append(candidates, w)
    /\ pc' = "check"
    /\ UNCHANGED <<answer, history, i, result, games, computed, mask>>

(* let guess = guesser.guess(&history[..]) *)
Guess(w) ==
    /\ pc = "loop"
    /\ i < MaxRounds
    /\ guess' = w
    /\ candidates' = Append(candidates, w)
    /\ pc' = "check"
    /\ UNCHANGED <<answer, history, i, result, games, computed, mask>>

(* A variant that returns Some(i). *)
WinOffByOne ==
    /\ pc = "check"
    /\ guess = answer
    /\ result' = Some(i)
    /\ pc' = "done"
    /\ UNCHANGED <<answer, guess, history, i, candidates, games, computed, mask>>

(* if guess == answer { return Some(i + 1) } *)
Win ==
    /\ pc = "check"
    /\ guess = answer
    /\ result' = Some(i + 1)
    /\ pc' = "done"
    /\ UNCHANGED <<answer, guess, history, i, candidates, games, computed, mask>>

(* assert!(self.dictionary.contains(&*guess)) fails *)
Illegal ==
    /\ pc = "check"
    /\ guess # answer
    /\ guess \notin Dictionary
    /\ pc' = "panic"
    /\ UNCHANGED <<answer, guess, history, i, result, candidates, games, computed, mask>>

(* Correctness::compute(answer, &guess) fails one of its assertions *)
ComputeFails ==
    /\ pc = "check"
    /\ guess # answer
    /\ guess \in Dictionary
    /\ compute(answer, guess) = Panicked
    /\ pc' = "panic"
    /\ computed' = computed + 1
    /\ UNCHANGED <<answer, guess, history, i, result, candidates, games, mask>>

(* A variant that inserts the new entry at the front of the history. *)
RecordInFront ==
    /\ pc = "check"
    /\ guess # answer
    /\ guess \in Dictionary
    /\ LET correctness == compute(answer, guess)
       IN  /\ correctness # Panicked
           /\ history' = <<[word |-> guess, mask |-> correctness]>> \o history
    /\ i' = i + 1
    /\ pc' = "loop"
    /\ computed' = computed + 1
    /\ UNCHANGED <<answer, guess, result, candidates, games, mask>>

(* A variant that advances the loop variable by two. *)
RecordSkipsRound ==
    /\ pc = "check"
    /\ guess # answer
    /\ guess \in Dictionary
    /\ LET correctness == compute(answer, guess)
       IN  /\ correctness # Panicked
           /\ history' = Append(history, [word |-> guess, mask |-> correctness])
    /\ i' = i + 2
    /\ pc' = "loop"
    /\ computed' = computed + 1
    /\ UNCHANGED <<answer, guess, result, candidates, games, mask>>

(* A variant that hands the words to compute in the other order. *)
RecordSwapped ==
    /\ pc = "check"
    /\ guess # answer
    /\ guess \in Dictionary
    /\ LET correctness == compute(guess, answer)
       IN  /\ correctness # Panicked
           /\ history' = Append(history, [word |-> guess, mask |-> correctness])
    /\ i' = i + 1
    /\ pc' = "loop"
    /\ computed' = computed + 1
    /\ UNCHANGED <<answer, guess, result, candidates, games, mask>>

(* A variant without the dictionary assertion in front of it. *)
RecordUnchecked ==
    /\ pc = "check"
    /\ guess # answer
    /\ LET correctness == compute(answer, guess)
       IN  /\ correctness # Panicked
           /\ history' = Append(history, [word |-> guess, mask |-> correctness])
    /\ i' = i + 1
    /\ pc' = "loop"
    /\ computed' = computed + 1
    /\ UNCHANGED <<answer, guess, result, candidates, games, mask>>

(* history.push(Guess { word: guess, mask: correctness }), next iteration *)
Record ==
    /\ pc = "check"
    /\ guess # answer
    /\ guess \in Dictionary
    /\ LET correctness == compute(answer, guess)
       IN  /\ correctness # Panicked
           /\ history' = Append(history, [word |-> guess, mask |-> correctness])
    /\ i' = i + 1
    /\ pc' = "loop"
    /\ computed' = computed + 1
    /\ UNCHANGED <<answer, guess, result, candidates, games, mask>>

(* A variant that starts the rounds over when the loop is exhausted. *)
LoseRetries ==
    /\ pc = "loop"
    /\ i >= MaxRounds
    /\ i' = 0
    /\ history' = <<>>
    /\ candidates' = <<>>
    /\ computed' = 0
    /\ UNCHANGED <<answer, guess, pc, result, games, mask>>

(* the loop is exhausted: None *)
Lose ==
    /\ pc = "loop"
    /\ i >= MaxRounds
    /\ result' = None
    /\ pc' = "done"
    /\ UNCHANGED <<answer, guess, history, i, candidates, games, computed, mask>>

(* main: the next w.play(answer, guesser) on the same Wordle *)
NewGame(a) ==
    /\ pc = "done"
    /\ games < MaxGames
    /\ games' = games + 1
    /\ StartGame(a)
    /\ UNCHANGED mask

Next ==
    \/ \E w \in Guessable : Guess(w)
    \/ Win
    \/ Illegal
    \/ ComputeFails
    \/ Record
    \/ Lose
    \/ \E a \in Answers : NewGame(a)

Spec == Init /\ [][Next]_vars

(* play is straight-line synchronous code and every guesser.guess call
   returns: a game that can take a step takes one. Nothing obliges main to
   start another game. *)
PlayStep ==
    \/ \E w \in Guessable : Guess(w)
    \/ Win
    \/ Illegal
    \/ ComputeFails
    \/ Record
    \/ Lose

FairSpec == Init /\ [][Next]_vars /\ WF_vars(PlayStep)

----------------------------------------------------------------------------
(* Correctness::compute called on its own *)

InitCall(A, G) ==
    /\ answer \in A
    /\ guess \in G
    /\ pc = "call"
    /\ mask = Panicked
    /\ history = <<>>
    /\ i = 0
    /\ result = Pending
    /\ candidates = <<>>
    /\ games = 0
    /\ computed = 0

Call ==
    /\ pc = "call"
    /\ mask' = compute(answer, guess)
    /\ pc' = "returned"
    /\ UNCHANGED <<answer, guess, history, i, result, candidates, games,
                 computed>>

NextCompute == Call

InitCompute == InitCall(Words, Words)

SpecCompute == InitCompute /\ [][NextCompute]_vars

(* compute called with an answer without repeated letters and a guess that
   rearranges it (tests::compute::all_green, all_yellow). *)
NoRepeat(w) == \A p, q \in DOMAIN w : w[p] = w[q] => p = q

Range(w) == {w[p] : p \in DOMAIN w}

Count(w, ch) == Cardinality({p \in DOMAIN w : w[p] = ch})

IsPermutation(g, a) ==
    /\ DOMAIN g = DOMAIN a
    /\ \A ch \in Range(a) \cup Range(g) : Count(g, ch) = Count(a, ch)

DistinctWords == {w \in [Pos -> PermLetters] : NoRepeat(w)}

InitPerm ==
    /\ answer \in DistinctWords
    /\ guess \in {g \in [Pos -> Range(answer)] : IsPermutation(g, answer)}
    /\ pc = "call"
    /\ mask = Panicked
    /\ history = <<>>
    /\ i = 0
    /\ result = Pending
    /\ candidates = <<>>
    /\ games = 0
    /\ computed = 0

SpecPerm == InitPerm /\ [][NextCompute]_vars

----------------------------------------------------------------------------
(* The two-pass rule, stated over the set of consumed answer positions. *)

ExactAt(a, g) == {p \in Pos : g[p] = a[p]}

Leftmost(S) == CHOOSE p \in S : \A q \in S : p <= q

RECURSIVE CrossFrom(_, _, _, _)
CrossFrom(a, g, p, consumed) ==
    IF p > WordLen THEN <<>>
    ELSE IF p \in ExactAt(a, g)
         THEN <<Correct>> \o CrossFrom(a, g, p + 1, consumed)
    ELSE LET free == {q \in Pos \ consumed : a[q] = g[p]}
         IN  IF free = {}
             THEN <<Wrong>> \o CrossFrom(a, g, p + 1, consumed)
             ELSE <<Misplaced>> \o
                  CrossFrom(a, g, p + 1, consumed \cup {Leftmost(free)})

TwoPassRule(a, g) == CrossFrom(a, g, 1, ExactAt(a, g))

AllMarked(m, v) == Len(m) = WordLen /\ \A p \in Pos : m[p] = v

(* C1: for words of five letters, repeated letters included, compute returns
   the mask of the two-pass rule: equal letters at the same position are
   Correct and consume that answer position; the other guess positions, left
   to right, are Misplaced and consume the leftmost unconsumed answer position
   with the same letter, or Wrong when there is none. The four masks of the
   tests are as documented. *)
C1_TwoPassRule ==
    /\ pc = "returned" => mask = TwoPassRule(answer, guess)
    /\ compute(<<"a", "a", "b", "b", "b">>, <<"a", "a", "c", "c", "c">>)
           = <<Correct, Correct, Wrong, Wrong, Wrong>>
    /\ compute(<<"a", "a", "b", "b", "b">>, <<"c", "c", "a", "a", "c">>)
           = <<Wrong, Wrong, Misplaced, Misplaced, Wrong>>
    /\ compute(<<"x", "x", "y", "y", "y">>, <<"z", "x", "x", "z", "z">>)
           = <<Wrong, Correct, Misplaced, Wrong, Wrong>>
    /\ compute(<<"c", "r", "a", "n", "e">>, <<"b", "r", "e", "a", "k">>)
           = <<Wrong, Correct, Misplaced, Misplaced, Wrong>>

(* A returned mask for a guess that repeats a letter: one occurrence Correct,
   one Misplaced and one Wrong. *)
C1_Witness ==
    /\ pc = "returned"
    /\ \E p, q, r \in Pos :
          /\ guess[p] = guess[q] /\ guess[q] = guess[r]
          /\ mask[p] = Correct /\ mask[q] = Misplaced /\ mask[r] = Wrong

(* C10: compute(w, w) marks all five positions Correct, also when w repeats
   letters, and a returned mask is all Correct only when the guess equals the
   answer. *)
C10_AllCorrectIffEqual ==
    pc = "returned" => (guess = answer <=> AllMarked(mask, Correct))

(* compute returned all Correct for a word with a repeated letter. *)
C10_Witness ==
    /\ pc = "returned"
    /\ guess = answer
    /\ ~NoRepeat(answer)
    /\ AllMarked(mask, Correct)

(* The guess positions of letter ch. *)
At(w, ch) == {p \in DOMAIN w : w[p] = ch}

OnceTwice(ch) == Count(answer, ch) = 1 /\ Count(guess, ch) = 2

(* C9 as stated: when the answer holds a letter once and the guess holds it
   twice, the leftmost occurrence in the guess is not Wrong and the later one
   is Wrong, wherever the letter stands in the two words. *)
C9_FirstOccurrenceMarked ==
    pc = "returned" =>
        \A ch \in Letters :
            OnceTwice(ch) =>
                LET first == Leftmost(At(guess, ch))
                IN  /\ mask[first] # Wrong
                    /\ \A p \in At(guess, ch) \ {first} : mask[p] = Wrong

(* C9 amended: when the answer holds a letter once and the guess holds it
   twice, exactly one occurrence in the guess is not Wrong: the one at the
   answer's position of the letter, marked Correct, when the guess has the
   letter there, and otherwise the leftmost one, marked Misplaced. The other
   occurrence is Wrong. *)
C9_OneOccurrenceMarked ==
    pc = "returned" =>
        \A ch \in Letters :
            OnceTwice(ch) =>
                LET exact == At(guess, ch) \cap At(answer, ch)
                    hit == IF exact # {} THEN Leftmost(exact)
                           ELSE Leftmost(At(guess, ch))
                IN  /\ mask[hit] = IF exact # {} THEN Correct ELSE Misplaced
                    /\ \A p \in At(guess, ch) \ {hit} : mask[p] = Wrong

(* The letter stands once in the answer and twice in the guess, the later
   occurrence at the answer's position: the later one is Correct, the
   leftmost one Wrong. *)
C9_Witness ==
    /\ pc = "returned"
    /\ \E ch \in Letters :
          /\ OnceTwice(ch)
          /\ \E p, q \in At(guess, ch) :
                /\ p < q
                /\ q \in At(answer, ch)
                /\ mask[p] = Wrong
                /\ mask[q] = Correct

(* C7 as stated: for an answer without repeated letters and a guess that is
   a permutation of it, every position is Misplaced. *)
C7_PermutationAllMisplaced ==
    (pc = "returned" /\ NoRepeat(answer) /\ IsPermutation(guess, answer))
        => AllMarked(mask, Misplaced)

(* C7 amended: for an answer without repeated letters and a guess that is a
   permutation of it, every position where the guess differs from the answer
   is Misplaced and every position where it agrees is Correct; so every
   position is Misplaced when the permutation leaves no letter in place. *)
C7_PermutationMisplacedOffPlace ==
    (pc = "returned" /\ NoRepeat(answer) /\ IsPermutation(guess, answer))
        => /\ Len(mask) = WordLen
           /\ \A p \in Pos :
                 mask[p] = IF guess[p] = answer[p] THEN Correct ELSE Misplaced

(* A permutation that leaves no letter in place came back all Misplaced. *)
C7_Witness ==
    /\ pc = "returned"
    /\ NoRepeat(answer)
    /\ IsPermutation(guess, answer)
    /\ \A p \in Pos : guess[p] # answer[p]
    /\ AllMarked(mask, Misplaced)

----------------------------------------------------------------------------
(* Properties of Wordle::play *)

(* A legal word that is not the answer. *)
LegalMiss(w) == w \in Dictionary /\ w # answer

(* Every word the guesser has returned so far is a legal miss. *)
OnlyLegalMisses == \A j \in 1..Len(candidates) : LegalMiss(candidates[j])

(* The guesser's first k - 1 words are legal misses and its k-th word, the
   last one so far, is the answer. *)
AnswerAtCall(k) ==
    /\ Len(candidates) = k
    /\ \A j \in 1..(k - 1) : LegalMiss(candidates[j])
    /\ candidates[k] = answer

(* C2: with an answer of five letters, for every k in 1..6, when the first
   k - 1 words of the guesser are legal words other than the answer and the
   k-th is the answer, the game does not fail, the history handed to the k-th
   invocation has k - 1 entries, and play returns Some(k); a guesser that
   returns the answer at once wins in round 1 with an empty history. *)
C2_WinsInRoundOfFirstMatch ==
    Len(answer) = WordLen =>
        /\ OnlyLegalMisses => (pc # "panic" /\ result.ret # "Some")
        /\ \A k \in 1..MaxRounds :
              AnswerAtCall(k) =>
                  /\ pc \in {"check", "done"}
                  /\ Len(history) = k - 1
                  /\ pc = "done" => result = Some(k)
        /\ (Len(candidates) >= 1 /\ candidates[1] = answer) =>
              /\ history = <<>>
              /\ pc = "done" => result = Some(1)

(* The guesser returned five legal misses and then the answer: play has
   returned Some(6) with a history of five entries. *)
C2_Witness ==
    /\ Len(answer) = WordLen
    /\ AnswerAtCall(MaxRounds)
    /\ pc = "done"
    /\ result = Some(MaxRounds)
    /\ Len(history) = MaxRounds - 1

(* C3: with an answer of five letters, when all six words of the guesser are
   legal words other than the answer, the game does not fail, play returns
   None, and the history then holds six entries, the guesser's words in round
   order. *)
C3_SixMissesLose ==
    (Len(answer) = WordLen /\ OnlyLegalMisses) =>
        /\ pc # "panic"
        /\ result.ret # "Some"
        /\ Len(candidates) = MaxRounds =>
              /\ pc = "done" => result = None
              /\ pc # "check" =>
                    /\ Len(history) = MaxRounds
                    /\ \A j \in 1..MaxRounds : history[j].word = candidates[j]
        /\ result = None =>
              /\ Len(candidates) = MaxRounds
              /\ Len(history) = MaxRounds

(* play has returned None after six legal misses, not all the same word. *)
C3_Witness ==
    /\ Len(answer) = WordLen
    /\ OnlyLegalMisses
    /\ pc = "done"
    /\ result = None
    /\ Len(history) = MaxRounds
    /\ history[1].word # history[MaxRounds].word

(* C4: in one game the guesser is invoked at most six times; a win in round
   k comes with exactly k invocations, a loss with six; and once the game has
   an outcome (a win, a loss or a fatal failure) the guesser is not invoked
   again in that game, whatever it returned. *)
C4_AtMostSixInvocations ==
    /\ [](Len(candidates) <= MaxRounds)
    /\ [](result.ret = "Some" => Len(candidates) = result.n)
    /\ [](result.ret = "None" => Len(candidates) = MaxRounds)
    /\ [][(pc \in {"done", "panic"} /\ games' = games)
             => candidates' = candidates]_vars

(* A game that failed fatally in its sixth round, after six invocations. *)
C4_Witness ==
    /\ pc = "panic"
    /\ Len(candidates) = MaxRounds

(* C5: a word of the guesser that is not in the dictionary is a fatal
   failure of its round and never a winning round, also when the word is the
   answer. *)
C5_DictionaryCheckedBeforeMatch ==
    (Len(candidates) >= 1
        /\ candidates[Len(candidates)] \notin Dictionary
        /\ pc # "check")
    => (pc = "panic" /\ result.ret # "Some")

(* C8: a game whose answer is not of five letters, or whose guesser returns
   a word not of five letters, fails fatally in the first round that uses the
   offending word: it never returns a winning round and never None, and
   compute returns no mask for such words. *)
C8_WrongLengthIsFatal ==
    /\ (Len(candidates) >= 1 /\ pc # "check"
          /\ (Len(answer) # WordLen
                \/ Len(candidates[Len(candidates)]) # WordLen))
        => (pc = "panic" /\ result = Pending)
    /\ \A a \in Answers, g \in Guessable :
          (Len(a) # WordLen \/ Len(g) # WordLen) => compute(a, g) = Panicked

(* The state of the game in terms of Playing(r), Won(n), Lost, and Aborted
   for a fatal failure. The exhausted loop is Lost already. *)
Playing(r) == [st |-> "Playing", n |-> r]
Won(n) == [st |-> "Won", n |-> n]
Lost == [st |-> "Lost", n |-> 0]
Aborted == [st |-> "Aborted", n |-> 0]

GameState ==
    IF pc = "panic" THEN Aborted
    ELSE IF result.ret = "Some" THEN Won(result.n)
    ELSE IF result.ret = "None" \/ i >= MaxRounds THEN Lost
    ELSE Playing(i)

(* The transitions of the documented state machine. *)
Listed(s, t) ==
    /\ s.st = "Playing"
    /\ \/ guess = answer /\ t = Won(s.n + 1)
       \/ guess # answer /\ s.n + 1 < MaxRounds /\ t = Playing(s.n + 1)
       \/ guess # answer /\ s.n = MaxRounds - 1 /\ t = Lost

(* The same transitions, a non-match advancing only with a dictionary word
   and words of five letters, and failing fatally otherwise. *)
ListedOrAborted(s, t) ==
    LET fails == guess \notin Dictionary
                    \/ Len(answer) # WordLen \/ Len(guess) # WordLen
    IN  /\ s.st = "Playing"
        /\ \/ guess = answer /\ t = Won(s.n + 1)
           \/ guess # answer /\ ~fails
                 /\ s.n + 1 < MaxRounds /\ t = Playing(s.n + 1)
           \/ guess # answer /\ ~fails
                 /\ s.n = MaxRounds - 1 /\ t = Lost
           \/ guess # answer /\ fails /\ t = Aborted

StartsPlaying == (pc = "loop" /\ candidates = <<>>) => GameState = Playing(0)

WonInRange == GameState.st = "Won" => GameState.n \in 1..MaxRounds

(* C6 as stated: a game starts in Playing(0) and moves only from Playing(r)
   to Won(r + 1) on a match, to Playing(r + 1) on a non-match with r + 1 < 6,
   and to Lost on a non-match with r = 5; Won(n) has n in 1..6 and nothing
   leaves Won or Lost. *)
C6_StateMachine ==
    /\ [](StartsPlaying /\ WonInRange)
    /\ [][games' = games =>
             (GameState' = GameState \/ Listed(GameState, GameState'))]_vars

(* C6 amended: as stated, except that a non-match advances to Playing(r + 1)
   or Lost only when the guess is a dictionary word and answer and guess have
   five letters; any other non-match leads from Playing(r) to a fatal failure,
   which is terminal as well. *)
C6_StateMachineWithFailure ==
    /\ [](StartsPlaying /\ WonInRange)
    /\ [][games' = games =>
             (GameState' = GameState
                 \/ ListedOrAborted(GameState, GameState'))]_vars

(* A game that went Playing(0), Playing(1) and then failed fatally on a
   non-match that is not in the dictionary. *)
C6_Witness ==
    /\ GameState = Aborted
    /\ i = 1
    /\ guess \notin Dictionary
    /\ guess # answer

----------------------------------------------------------------------------
(* Further properties of Correctness::compute *)

(* The guess positions q holding letter ch that have consumed an answer
   position by the time the loop reaches guess position p: the Correct ones,
   and the Misplaced ones to the left of p. *)
ConsumersBefore(ch, p) ==
    {q \in At(guess, ch) :
        mask[q] = Correct \/ (mask[q] = Misplaced /\ q < p)}

(* C11: when answer and guess have no letter in common every position is
   Wrong; and whatever the words, a position is Wrong only when every answer
   position with its letter is consumed by the time it is visited. *)
C11_WrongOnlyWhenNoneLeft ==
    pc = "returned" =>
        /\ Range(answer) \cap Range(guess) = {} => AllMarked(mask, Wrong)
        /\ \A p \in Pos :
              mask[p] = Wrong =>
                  Cardinality(ConsumersBefore(guess[p], p))
                      = Count(answer, guess[p])

(* Words without a common letter came back all Wrong. *)
C11_Witness ==
    /\ pc = "returned"
    /\ Range(answer) \cap Range(guess) = {}
    /\ Cardinality(Range(guess)) >= 2
    /\ AllMarked(mask, Wrong)

(* The guess positions holding ch that are marked Correct or Misplaced. *)
Marked(ch) == {q \in At(guess, ch) : mask[q] # Wrong}

Min2(x, y) == IF x <= y THEN x ELSE y

(* C16: for every letter, the number of guess positions with that letter that
   are marked Correct or Misplaced is the smaller of its number of occurrences
   in the guess and in the answer; and a guess position whose letter equals
   the answer's letter at that position is Correct. *)
C16_MarkedIsMinOfCounts ==
    pc = "returned" =>
        /\ \A ch \in Range(answer) \cup Range(guess) :
              Cardinality(Marked(ch))
                  = Min2(Count(guess, ch), Count(answer, ch))
        /\ \A p \in Pos : guess[p] = answer[p] => mask[p] = Correct

(* A letter that stands more often in the guess than in the answer, with an
   exact match to the right of a Wrong occurrence. *)
C16_Witness ==
    /\ pc = "returned"
    /\ \E p, q \in Pos :
          /\ p < q
          /\ guess[p] = guess[q]
          /\ mask[p] = Wrong
          /\ mask[q] = Correct
          /\ Count(guess, guess[p]) > Count(answer, guess[p])
          /\ Count(answer, guess[p]) >= 2

----------------------------------------------------------------------------
(* Further properties of Wordle::play *)

Terminal == pc \in {"done", "panic"}

(* C13: the history never has more than six entries; its length is the number
   of completed rounds, so an invocation of the guesser sees as many entries
   as there were invocations before it, none at the first and at most five at
   the last; every game starts with an empty history and the round counter at
   0, also a later game on the same Wordle. *)
C13_HistoryLengthIsRound ==
    /\ [](Len(history) <= MaxRounds /\ Len(history) = i)
    /\ [](pc = "check" =>
             /\ Len(history) = Len(candidates) - 1
             /\ Len(history) <= MaxRounds - 1)
    /\ [](candidates = <<>> => (history = <<>> /\ i = 0))
    /\ [][games' # games => (history' = <<>> /\ i' = 0)]_vars

(* The sixth invocation of a second game sees five entries. *)
C13_Witness ==
    /\ games = 2
    /\ pc = "check"
    /\ Len(candidates) = MaxRounds
    /\ Len(history) = MaxRounds - 1

(* C14: within a game the history only grows at its end: a step either
   leaves it unchanged or appends one entry for the non-matching guess of the
   round, keeping the earlier entries and their order; an invocation of the
   guesser, a winning round and a fatally failing round leave it unchanged. *)
C14_HistoryAppendOnly ==
    [][games' = games =>
          /\ \/ history' = history
             \/ /\ guess # answer
                /\ Len(history') = Len(history) + 1
                /\ SubSeq(history', 1, Len(history)) = history
                /\ history'[Len(history')].word = guess
          /\ candidates' # candidates => history' = history
          /\ (pc' \in {"done", "panic"}) => history' = history]_vars

(* A history of three entries, not all for the same word, handed to the
   fourth invocation. *)
C14_Witness ==
    /\ pc = "check"
    /\ Len(history) = 3
    /\ history[1].word # history[2].word
    /\ history[2].word # history[3].word

(* C17: every history entry holds a word other than the answer together with
   the mask compute gives for the game's answer and that word; so no entry is
   all Correct and the winning guess is never recorded. *)
C17_EntriesAreMissesWithTheirMask ==
    /\ \A j \in 1..Len(history) :
          /\ history[j].word # answer
          /\ history[j].mask = compute(answer, history[j].word)
          /\ history[j].mask = TwoPassRule(answer, history[j].word)
          /\ ~AllMarked(history[j].mask, Correct)
    /\ result.ret = "Some" =>
          /\ guess = answer
          /\ Len(history) = result.n - 1

(* A game won in round 3: two recorded misses, the winning guess not among
   them. *)
C17_Witness ==
    /\ result = Some(3)
    /\ Len(history) = 2
    /\ history[1].word # history[2].word
    /\ answer \in Dictionary

(* C18: every word in the history is a dictionary word; a round whose guess
   is neither the answer nor a dictionary word fails fatally without calling
   compute and without appending an entry, and after a fatal failure the game
   takes no further step. *)
C18_OnlyDictionaryWordsRecorded ==
    /\ [](\A j \in 1..Len(history) : history[j].word \in Dictionary)
    /\ [][(pc = "check" /\ guess # answer /\ guess \notin Dictionary) =>
             /\ pc' = "panic"
             /\ history' = history
             /\ computed' = computed
             /\ candidates' = candidates]_vars
    /\ [][pc # "panic"]_vars

(* A fatal failure in round 3 on a word that is not in the dictionary, with
   two recorded rounds and two calls of compute before it. *)
C18_Witness ==
    /\ pc = "panic"
    /\ guess \notin Dictionary
    /\ guess # answer
    /\ Len(history) = 2
    /\ computed = 2
    /\ Len(candidates) = 3

(* The guesser has not returned the answer in this game. *)
NeverAnswer == \A j \in 1..Len(candidates) : candidates[j] # answer

(* C15 as stated: every game reaches an outcome (a win, a loss or a fatal
   failure) within six rounds, and a game whose guesser never returns the
   answer ends in Lost. *)
C15_TerminatesNeverAnswerLost ==
    /\ ~Terminal ~> Terminal
    /\ [](i <= MaxRounds /\ Len(candidates) <= MaxRounds)
    /\ []((Terminal /\ NeverAnswer) => result = None)

(* C15 amended: every game reaches an outcome (a win, a loss or a fatal
   failure) within six rounds, and a game whose guesser never returns the
   answer has no winning round: it ends in Lost when the answer has five
   letters and all six words are dictionary words, and in a fatal failure
   otherwise. *)
C15_TerminatesNeverAnswerNoWin ==
    /\ ~Terminal ~> Terminal
    /\ [](i <= MaxRounds /\ Len(candidates) <= MaxRounds)
    /\ []((Terminal /\ NeverAnswer) =>
             /\ result.ret # "Some"
             /\ IF Len(answer) = WordLen /\ OnlyLegalMisses
                THEN pc = "done" /\ result = None
                     /\ Len(candidates) = MaxRounds
                ELSE pc = "panic" /\ result = Pending)

(* A game that ended in Lost after six words, none of them the answer. *)
C15_Witness ==
    /\ pc = "done"
    /\ result = None
    /\ NeverAnswer
    /\ Len(candidates) = MaxRounds

====
